---- MODULE Spec2Model ----
(***************************************************************************)
(* Model of src/storage/leveldbwrapper.h: CLevelDBBatch and                *)
(* CLevelDBWrapper, the typed key/value layer over the LevelDB engine.     *)
(*                                                                         *)
(* Byte strings are sequences of 0..255.  The engine's content is a        *)
(* function from key bytes to value bytes.  Engine failures are inputs:    *)
(* every engine call takes the status the engine is made to answer with    *)
(* ("OK" means: behave according to the content).                          *)
(***************************************************************************)
EXTENDS Integers, Sequences, FiniteSets

VARIABLES
    disk,           \* content of the on-disk database directory (key bytes -> value bytes)
    mem,            \* content of the in-memory environment of the live handle (fMemory)
    open,           \* pdb # NULL: a CLevelDBWrapper is alive
    fMemory,        \* the live handle was opened with fMemory = true
    obfuscate_key,  \* CLevelDBWrapper::obfuscate_key of the live handle
    batch,          \* the caller's CLevelDBBatch object: [batch, obfuscate_key]
    calls,          \* history: the typed calls made on that CLevelDBBatch
    ret,            \* the last operation, its inputs and what it returned
    diskShadow,     \* history: typed records successfully written to disk and not erased
    memShadow,      \* history: the same for the in-memory environment
    diskKey         \* history: the key first persisted for the data now on disk

vars == <<disk, mem, open, fMemory, obfuscate_key, batch, calls, ret,
          diskShadow, memShadow, diskKey>>

----------------------------------------------------------------------------
(* Bounds of the model *)

\* longest batch a caller builds
MaxBatch == 2
\* number of distinct non-zero keys the random generator is given to draw
NumRandKeys == 1

(* Program constants *)

OBFUSCATE_KEY_NUM_BYTES == 8

\* std::string("\000obfuscate_key", 14)
OBFUSCATE_KEY_KEY == <<0, 111, 98, 102, 117, 115, 99, 97, 116, 101, 95, 107, 101, 121>>

----------------------------------------------------------------------------
(* Inputs *)

\* caller keys, std::string: "a", "b"
Keys == {<<97>>, <<98>>}

\* caller value types and values: unsigned char and uint16_t
Types == {"u8", "u16"}
TypedValues == {[type |-> "u8", value |-> 7], [type |-> "u8", value |-> 42],
                [type |-> "u16", value |-> 298]}

\* statuses the engine can be made to fail with
EngineFaults == {"IOError", "Corruption"}
Statuses == {"OK"} \cup EngineFaults

NoValue == 0 - 1
EmptyDB == << >>
NoBatch == [batch |-> << >>, obfuscate_key |-> << >>]

----------------------------------------------------------------------------
(* Codec: CDataStream << and >> for the types used *)

\* std::string and std::vector<unsigned char>: compact size, then the bytes
SerializeBytes(s) == <<Len(s)>> \o s

SerializeKey(key) == SerializeBytes(key)

SerializeValue(t, v) ==
    CASE t = "u8"  -> <<v>>
      [] t = "u16" -> <<v % 256, v \div 256>>
      [] t = "vec" -> SerializeBytes(v)

\* ssValue >> value: ok = FALSE stands for the exception thrown at end of data
Unserialize(t, bytes) ==
    CASE t = "u8"  -> IF Len(bytes) >= 1
                      THEN [ok |-> TRUE, value |-> bytes[1]]
                      ELSE [ok |-> FALSE, value |-> NoValue]
      [] t = "u16" -> IF Len(bytes) >= 2
                      THEN [ok |-> TRUE, value |-> bytes[1] + 256 * bytes[2]]
                      ELSE [ok |-> FALSE, value |-> NoValue]
      [] t = "vec" -> IF Len(bytes) >= 1 /\ Len(bytes) >= 1 + bytes[1]
                      THEN [ok |-> TRUE, value |-> SubSeq(bytes, 2, 1 + bytes[1])]
                      ELSE [ok |-> FALSE, value |-> NoValue]

----------------------------------------------------------------------------
(* Obfuscator *)

RECURSIVE XorBits(_, _, _)
XorBits(a, b, n) ==
    IF n = 0 THEN 0
    ELSE (((a % 2) + (b % 2)) % 2) + 2 * XorBits(a \div 2, b \div 2, n - 1)

\* payload XOR key, the key repeated cyclically; an empty key changes nothing
Xor(key, payload) ==
    IF key = << >> THEN payload
    ELSE [i \in 1..Len(payload) |->
            XorBits(payload[i], key[((i - 1) % Len(key)) + 1], 8)]

ZeroKey == [j \in 1..OBFUSCATE_KEY_NUM_BYTES |-> 0]

MkKey(i) == [j \in 1..OBFUSCATE_KEY_NUM_BYTES |-> (i * 37 * j) % 256]

\* the outcomes of the random generator: MkKey(0) is the all-zero key
CreateObfuscateKey == {MkKey(i) : i \in 0..NumRandKeys}

----------------------------------------------------------------------------
(* The engine: leveldb::DB *)

EnginePut(db, k, v) == [x \in (DOMAIN db) \cup {k} |-> IF x = k THEN v ELSE db[x]]

EngineDelete(db, k) == [x \in (DOMAIN db) \ {k} |-> db[x]]

ApplyOp(db, o) ==
    IF o.op = "Put" THEN EnginePut(db, o.key, o.value) ELSE EngineDelete(db, o.key)

RECURSIVE ApplyOps(_, _)
ApplyOps(db, ops) ==
    IF ops = << >> THEN db ELSE ApplyOps(ApplyOp(db, Head(ops)), Tail(ops))

\* DB::Get
EngineGet(db, k, fault) ==
    IF fault # "OK" THEN [status |-> fault, value |-> << >>]
    ELSE IF k \in DOMAIN db THEN [status |-> "OK", value |-> db[k]]
    ELSE [status |-> "NotFound", value |-> << >>]

\* DB::Write of a WriteBatch: all operations in order, or none
EngineWrite(db, ops, fault) ==
    IF fault # "OK" THEN [status |-> fault, db |-> db]
    ELSE [status |-> "OK", db |-> ApplyOps(db, ops)]

RECURSIVE LexLess(_, _)
LexLess(a, b) ==
    IF a = << >> THEN b # << >>
    ELSE IF b = << >> THEN FALSE
    ELSE IF Head(a) # Head(b) THEN Head(a) < Head(b)
    ELSE LexLess(Tail(a), Tail(b))

\* DB::NewIterator, SeekToFirst, Next ...: every entry, ascending key bytes
RECURSIVE EngineIterate(_)
EngineIterate(db) ==
    IF DOMAIN db = {} THEN << >>
    ELSE LET k == CHOOSE x \in DOMAIN db :
                     \A y \in DOMAIN db : y = x \/ LexLess(x, y)
         IN <<[key |-> k, value |-> db[k]]>> \o EngineIterate(EngineDelete(db, k))

----------------------------------------------------------------------------
(* HandleError: TRUE when it throws leveldb_error *)

HandleError(status) == status # "OK"

----------------------------------------------------------------------------
(* CLevelDBBatch *)

CLevelDBBatch(okey) == [batch |-> << >>, obfuscate_key |-> okey]

BatchWrite_Xor(b, key, t, value) ==
    [b EXCEPT !.batch = Append(@, [op |-> "Put", key |-> SerializeKey(key),
                   value |-> Xor(b.obfuscate_key, SerializeValue(t, value))])]

BatchWrite_Front(b, key, t, value) ==
    [b EXCEPT !.batch = <<[op |-> "Put", key |-> SerializeKey(key),
                           value |-> SerializeValue(t, value)]>> \o @]

BatchWrite(b, key, t, value) ==
    LET slKey == SerializeKey(key)
        slValue == SerializeValue(t, value)
    IN [b EXCEPT !.batch = Append(@, [op |-> "Put", key |-> slKey, value |-> slValue])]

BatchErase(b, key) ==
    LET slKey == SerializeKey(key)
    IN [b EXCEPT !.batch = Append(@, [op |-> "Delete", key |-> slKey, value |-> << >>])]

----------------------------------------------------------------------------
(* CLevelDBWrapper: the operations as functions of the engine content *)

Read_RawKey(db, key, t, fault) ==
    LET g == EngineGet(db, key, fault)
    IN IF g.status # "OK" /\ g.status = "NotFound"
       THEN [result |-> "false", value |-> NoValue]
       ELSE IF g.status # "OK" /\ HandleError(g.status)
       THEN [result |-> "throw", value |-> NoValue]
       ELSE LET u == Unserialize(t, g.value)
            IN IF u.ok THEN [result |-> "true", value |-> u.value]
               ELSE [result |-> "false", value |-> NoValue]

Read_ThrowUndecodable(db, key, t, fault) ==
    LET g == EngineGet(db, SerializeKey(key), fault)
    IN IF g.status # "OK" /\ g.status = "NotFound"
       THEN [result |-> "false", value |-> NoValue]
       ELSE IF g.status # "OK" /\ HandleError(g.status)
       THEN [result |-> "throw", value |-> NoValue]
       ELSE LET u == Unserialize(t, g.value)
            IN IF u.ok THEN [result |-> "true", value |-> u.value]
               ELSE [result |-> "throw", value |-> NoValue]

Read(db, key, t, fault) ==
    LET slKey == SerializeKey(key)
        g == EngineGet(db, slKey, fault)
    IN IF g.status # "OK" /\ g.status = "NotFound"
       THEN [result |-> "false", value |-> NoValue]
       ELSE IF g.status # "OK" /\ HandleError(g.status)
       THEN [result |-> "throw", value |-> NoValue]
       ELSE LET u == Unserialize(t, g.value)
            IN IF u.ok THEN [result |-> "true", value |-> u.value]
               ELSE [result |-> "false", value |-> NoValue]

Exists_Swallow(db, key, fault) ==
    LET g == EngineGet(db, SerializeKey(key), fault)
    IN IF g.status # "OK" THEN "false" ELSE "true"

Exists(db, key, fault) ==
    LET slKey == SerializeKey(key)
        g == EngineGet(db, slKey, fault)
    IN IF g.status # "OK" /\ g.status = "NotFound" THEN "false"
       ELSE IF g.status # "OK" /\ HandleError(g.status) THEN "throw"
       ELSE "true"

\* a loop of single engine writes instead of one atomic batch write
RECURSIVE WriteEach(_, _, _)
WriteEach(db, ops, fault) ==
    IF ops = << >> THEN [status |-> fault, db |-> db]
    ELSE IF Len(ops) = 1 THEN EngineWrite(db, ops, fault)
    ELSE WriteEach(EngineWrite(db, <<Head(ops)>>, "OK").db, Tail(ops), fault)

WriteBatch_PerOp(db, b, fault) ==
    LET w == WriteEach(db, b.batch, fault)
    IN [result |-> IF HandleError(w.status) THEN "throw" ELSE "true", db |-> w.db]

WriteBatch(db, b, fault) ==
    LET w == EngineWrite(db, b.batch, fault)
    IN [result |-> IF HandleError(w.status) THEN "throw" ELSE "true", db |-> w.db]

Write(db, okey, key, t, value, fault) ==
    WriteBatch(db, BatchWrite(CLevelDBBatch(okey), key, t, value), fault)

Erase_RawKey(db, okey, key, fault) ==
    WriteBatch(db, [batch |-> <<[op |-> "Delete", key |-> key, value |-> << >>]>>,
                    obfuscate_key |-> okey], fault)

Erase(db, okey, key, fault) ==
    WriteBatch(db, BatchErase(CLevelDBBatch(okey), key), fault)

\* not available for LevelDB; provided for compatibility with BDB
Flush == "true"

\* an empty batch, written with the sync options
Sync(db, okey, fault) == WriteBatch(db, CLevelDBBatch(okey), fault)

NewIterator(db) == EngineIterate(db)

IsEmpty_CountsSentinel(db) == DOMAIN db = {}

\* no record other than the one under the sentinel key
IsEmpty(db) == \A k \in DOMAIN db : k = SerializeKey(OBFUSCATE_KEY_KEY)

----------------------------------------------------------------------------
(* History: the typed records a caller has written and not erased *)

ShadowPut(sh, key, t, v) ==
    [x \in (DOMAIN sh) \cup {key} |->
        IF x = key THEN [type |-> t, value |-> v] ELSE sh[x]]

ShadowDel(sh, key) == [x \in (DOMAIN sh) \ {key} |-> sh[x]]

RECURSIVE ShadowApply(_, _)
ShadowApply(sh, cs) ==
    IF cs = << >> THEN sh
    ELSE LET c == Head(cs)
         IN ShadowApply(IF c.op = "Write" THEN ShadowPut(sh, c.key, c.type, c.value)
                        ELSE ShadowDel(sh, c.key), Tail(cs))

----------------------------------------------------------------------------
(* The live handle's engine content and its history *)

Db == IF fMemory THEN mem ELSE disk

Shadow == IF fMemory THEN memShadow ELSE diskShadow

GetObfuscateKey == obfuscate_key

Ret(op, key, t, value, fault, result, items, note) ==
    [op |-> op, key |-> key, type |-> t, value |-> value, fault |-> fault,
     result |-> result, items |-> items, note |-> note]

SetDb(newdb, newshadow) ==
    /\ disk' = IF fMemory THEN disk ELSE newdb
    /\ mem' = IF fMemory THEN newdb ELSE mem
    /\ diskShadow' = IF fMemory THEN diskShadow ELSE newshadow
    /\ memShadow' = IF fMemory THEN newshadow ELSE memShadow

----------------------------------------------------------------------------
(* CLevelDBWrapper::CLevelDBWrapper on engine content `base`: DB::Open,    *)
(* then load the obfuscation key or, on an empty database, create it.      *)

NoFault == <<"none", "OK">>
OpenFaults == {NoFault} \cup ({"open", "get", "write"} \X EngineFaults)

StageFault(f, stage) == IF f[1] = stage THEN f[2] ELSE "OK"

Constructor(base, newKey, f) ==
    LET failed == [ok |-> FALSE, db |-> base, key |-> << >>, generated |-> FALSE]
    IN IF HandleError(StageFault(f, "open")) THEN failed
       ELSE LET key_exists == Read(base, OBFUSCATE_KEY_KEY, "vec", StageFault(f, "get"))
            IN IF key_exists.result = "throw" THEN failed
               ELSE IF key_exists.result = "false" /\ IsEmpty(base)
               THEN LET w == Write(base, ZeroKey, OBFUSCATE_KEY_KEY, "vec", newKey,
                                   StageFault(f, "write"))
                    IN IF w.result = "throw" THEN failed
                       ELSE [ok |-> TRUE, db |-> w.db, key |-> newKey, generated |-> TRUE]
               ELSE [ok |-> TRUE, db |-> base,
                     key |-> IF key_exists.result = "true" THEN key_exists.value
                             ELSE ZeroKey,
                     generated |-> FALSE]

OpenNote(c, fMem, fWipe) ==
    IF ~c.ok THEN ""
    ELSE IF ~c.generated THEN "loaded"
    ELSE IF fMem THEN "generated-memory"
    ELSE IF fWipe THEN "generated-wiped"
    ELSE IF diskKey = << >> THEN "generated-created"
    ELSE "generated-existing"

----------------------------------------------------------------------------
(* Actions *)

Init ==
    /\ disk = EmptyDB
    /\ mem = EmptyDB
    /\ open = FALSE
    /\ fMemory = FALSE
    /\ obfuscate_key = << >>
    /\ batch = NoBatch
    /\ calls = << >>
    /\ ret = Ret("none", << >>, "", NoValue, "OK", "", << >>, "")
    /\ diskShadow = EmptyDB
    /\ memShadow = EmptyDB
    /\ diskKey = << >>

DoOpen(fMem, fWipe, newKey, f) ==
    /\ ~open
    /\ LET base == IF fMem \/ fWipe THEN EmptyDB ELSE disk
           c == Constructor(base, newKey, f)
           cur == IF fWipe THEN << >> ELSE diskKey
       IN /\ open' = c.ok
          /\ fMemory' = (c.ok /\ fMem)
          /\ obfuscate_key' = c.key
          /\ disk' = IF fMem THEN disk ELSE c.db
          /\ mem' = IF fMem /\ c.ok THEN c.db ELSE EmptyDB
          /\ diskShadow' = IF ~fMem /\ fWipe THEN EmptyDB ELSE diskShadow
          /\ memShadow' = EmptyDB
          /\ diskKey' = IF fMem THEN diskKey
                        ELSE IF c.generated /\ cur = << >> THEN c.key ELSE cur
          /\ ret' = Ret("Open", << >>, "", NoValue, f[2],
                        IF c.ok THEN "true" ELSE "throw", << >>,
                        OpenNote(c, fMem, fWipe))
    /\ UNCHANGED <<batch, calls>>

DoClose ==
    /\ open
    /\ open' = FALSE
    /\ fMemory' = FALSE
    /\ obfuscate_key' = << >>
    /\ mem' = EmptyDB
    /\ memShadow' = EmptyDB
    /\ ret' = Ret("Close", << >>, "", NoValue, "OK", "", << >>, "")
    /\ UNCHANGED <<disk, diskShadow, diskKey, batch, calls>>

DoRead(key, t, fault) ==
    /\ open
    /\ LET r == Read(Db, key, t, fault)
       IN ret' = Ret("Read", key, t, r.value, fault, r.result, << >>, "")
    /\ UNCHANGED <<disk, mem, open, fMemory, obfuscate_key, batch, calls,
                   diskShadow, memShadow, diskKey>>

DoExists(key, fault) ==
    /\ open
    /\ ret' = Ret("Exists", key, "", NoValue, fault, Exists(Db, key, fault), << >>, "")
    /\ UNCHANGED <<disk, mem, open, fMemory, obfuscate_key, batch, calls,
                   diskShadow, memShadow, diskKey>>

DoWrite(key, tv, fault) ==
    /\ open
    /\ LET w == Write(Db, obfuscate_key, key, tv.type, tv.value, fault)
       IN /\ SetDb(w.db, IF w.result = "true"
                         THEN ShadowPut(Shadow, key, tv.type, tv.value) ELSE Shadow)
          /\ ret' = Ret("Write", key, tv.type, tv.value, fault, w.result, << >>, "")
    /\ UNCHANGED <<open, fMemory, obfuscate_key, batch, calls, diskKey>>

DoErase(key, fault) ==
    /\ open
    /\ LET w == Erase(Db, obfuscate_key, key, fault)
       IN /\ SetDb(w.db, IF w.result = "true" THEN ShadowDel(Shadow, key) ELSE Shadow)
          /\ ret' = Ret("Erase", key, "", NoValue, fault, w.result, << >>, "")
    /\ UNCHANGED <<open, fMemory, obfuscate_key, batch, calls, diskKey>>

DoFlush ==
    /\ open
    /\ ret' = Ret("Flush", << >>, "", NoValue, "OK", Flush, << >>, "")
    /\ UNCHANGED <<disk, mem, open, fMemory, obfuscate_key, batch, calls,
                   diskShadow, memShadow, diskKey>>

DoSync(fault) ==
    /\ open
    /\ LET w == Sync(Db, obfuscate_key, fault)
       IN /\ SetDb(w.db, Shadow)
          /\ ret' = Ret("Sync", << >>, "", NoValue, fault, w.result, << >>, "")
    /\ UNCHANGED <<open, fMemory, obfuscate_key, batch, calls, diskKey>>

DoIsEmpty ==
    /\ open
    /\ ret' = Ret("IsEmpty", << >>, "", NoValue, "OK",
                  IF IsEmpty(Db) THEN "true" ELSE "false", << >>, "")
    /\ UNCHANGED <<disk, mem, open, fMemory, obfuscate_key, batch, calls,
                   diskShadow, memShadow, diskKey>>

DoNewIterator ==
    /\ open
    /\ ret' = Ret("NewIterator", << >>, "", NoValue, "OK", "", NewIterator(Db), "")
    /\ UNCHANGED <<disk, mem, open, fMemory, obfuscate_key, batch, calls,
                   diskShadow, memShadow, diskKey>>

Next ==
    \/ \E fMem \in BOOLEAN, fWipe \in BOOLEAN, newKey \in CreateObfuscateKey,
          f \in OpenFaults : DoOpen(fMem, fWipe, newKey, f)
    \/ DoClose
    \/ \E key \in Keys, t \in Types, fault \in Statuses : DoRead(key, t, fault)
    \/ \E key \in Keys, fault \in Statuses : DoExists(key, fault)
    \/ \E key \in Keys, tv \in TypedValues, fault \in Statuses : DoWrite(key, tv, fault)
    \/ \E key \in Keys, fault \in Statuses : DoErase(key, fault)
    \/ DoFlush
    \/ \E fault \in Statuses : DoSync(fault)
    \/ DoIsEmpty
    \/ DoNewIterator

Spec == Init /\ [][Next]_vars

----------------------------------------------------------------------------
(* Batches built by a caller on a store opened on a new on-disk database *)

InitBatch ==
    \E newKey \in CreateObfuscateKey :
        LET c == Constructor(EmptyDB, newKey, NoFault)
        IN /\ disk = c.db
           /\ mem = EmptyDB
           /\ open = TRUE
           /\ fMemory = FALSE
           /\ obfuscate_key = c.key
           /\ batch = CLevelDBBatch(c.key)
           /\ calls = << >>
           /\ ret = Ret("Open", << >>, "", NoValue, "OK", "true", << >>,
                        "generated-created")
           /\ diskShadow = EmptyDB
           /\ memShadow = EmptyDB
           /\ diskKey = c.key

DoNewBatch ==
    /\ open
    /\ batch' = CLevelDBBatch(obfuscate_key)
    /\ calls' = << >>
    /\ ret' = Ret("NewBatch", << >>, "", NoValue, "OK", "", << >>, "")
    /\ UNCHANGED <<disk, mem, open, fMemory, obfuscate_key,
                   diskShadow, memShadow, diskKey>>

DoBatchWrite_WriteThrough(key, tv) ==
    /\ open
    /\ Len(calls) < MaxBatch
    /\ batch' = BatchWrite(batch, key, tv.type, tv.value)
    /\ calls' = Append(calls, [op |-> "Write", key |-> key, type |-> tv.type,
                               value |-> tv.value])
    /\ ret' = Ret("BatchWrite", << >>, "", NoValue, "OK", "", << >>, "")
    /\ SetDb(ApplyOps(Db, <<batch'.batch[Len(batch'.batch)]>>), Shadow)
    /\ UNCHANGED <<open, fMemory, obfuscate_key, diskKey>>

DoBatchWrite(key, tv) ==
    /\ open
    /\ Len(calls) < MaxBatch
    /\ batch' = BatchWrite(batch, key, tv.type, tv.value)
    /\ calls' = Append(calls, [op |-> "Write", key |-> key, type |-> tv.type,
                               value |-> tv.value])
    /\ ret' = Ret("BatchWrite", << >>, "", NoValue, "OK", "", << >>, "")
    /\ UNCHANGED <<disk, mem, open, fMemory, obfuscate_key,
                   diskShadow, memShadow, diskKey>>

DoBatchErase(key) ==
    /\ open
    /\ Len(calls) < MaxBatch
    /\ batch' = BatchErase(batch, key)
    /\ calls' = Append(calls, [op |-> "Erase", key |-> key, type |-> "",
                               value |-> NoValue])
    /\ ret' = Ret("BatchErase", << >>, "", NoValue, "OK", "", << >>, "")
    /\ UNCHANGED <<disk, mem, open, fMemory, obfuscate_key,
                   diskShadow, memShadow, diskKey>>

DoWriteBatch(fault) ==
    /\ open
    /\ LET w == WriteBatch(Db, batch, fault)
       IN /\ SetDb(w.db, IF w.result = "true" THEN ShadowApply(Shadow, calls)
                         ELSE Shadow)
          /\ ret' = Ret("WriteBatch", << >>, "", NoValue, fault, w.result, << >>, "")
    /\ UNCHANGED <<open, fMemory, obfuscate_key, batch, calls, diskKey>>

NextBatch ==
    \/ DoNewBatch
    \/ \E key \in Keys, tv \in TypedValues : DoBatchWrite(key, tv)
    \/ \E key \in Keys : DoBatchErase(key)
    \/ \E fault \in Statuses : DoWriteBatch(fault)

SpecBatch == InitBatch /\ [][NextBatch]_vars

----------------------------------------------------------------------------
(* Properties *)

Range(s) == {s[i] : i \in DOMAIN s}

SentinelKey == SerializeKey(OBFUSCATE_KEY_KEY)

\* the bytes a caller's typed record is expected to occupy in the engine
CallerRecords ==
    {[key |-> SerializeKey(k),
      value |-> SerializeValue(Shadow[k].type, Shadow[k].value)] : k \in DOMAIN Shadow}

SentinelRecord ==
    [key |-> SentinelKey, value |-> SerializeValue("vec", obfuscate_key)]

Ascending(s) == \A i \in 1..(Len(s) - 1) : LexLess(s[i].key, s[i + 1].key)

\* the engine content with every typed call of a batch applied, one after the other
RECURSIVE AllApplied(_, _)
AllApplied(db, cs) ==
    IF cs = << >> THEN db
    ELSE LET c == Head(cs)
             k == SerializeKey(c.key)
         IN AllApplied(
                IF c.op = "Write"
                THEN [x \in (DOMAIN db) \cup {k} |->
                         IF x = k THEN SerializeValue(c.type, c.value) ELSE db[x]]
                ELSE [x \in (DOMAIN db) \ {k} |-> db[x]],
                Tail(cs))

\* C1: a Read of a key whose last successful operation was Write(k, v), as the
\* type written and with the engine answering, reports found and returns v.
C1_RoundTrip ==
    (/\ ret.op = "Read"
     /\ ret.fault = "OK"
     /\ ret.key \in DOMAIN Shadow
     /\ ret.type = Shadow[ret.key].type)
        => (ret.result = "true" /\ ret.value = Shadow[ret.key].value)

C1_Witness ==
    /\ ret.op = "Read"
    /\ ret.fault = "OK"
    /\ obfuscate_key # ZeroKey
    /\ ret.key \in DOMAIN Shadow
    /\ Shadow[ret.key] = [type |-> "u16", value |-> 298]
    /\ ret.type = "u16"
    /\ ret.result = "true"
    /\ ret.value = 298

\* C2: every Put recorded in a batch carries the caller's serialized key
\* unchanged and the serialized value XORed cyclically with the store's
\* obfuscation key, so with a non-zero key and a non-empty payload the bytes
\* handed to the engine differ from the plaintext serialized value.
C2_PutObfuscated ==
    \A i \in DOMAIN calls :
        calls[i].op = "Write" =>
            LET plain == SerializeValue(calls[i].type, calls[i].value)
            IN /\ batch.batch[i].op = "Put"
               /\ batch.batch[i].key = SerializeKey(calls[i].key)
               /\ batch.batch[i].value = Xor(obfuscate_key, plain)
               /\ (obfuscate_key # ZeroKey /\ Len(plain) >= 1
                       => batch.batch[i].value # plain)

\* C3: a WriteBatch step either applies every recorded put and delete and
\* returns true, or, when the engine fails, throws and leaves the database
\* exactly as it was; no other state follows a submission.
C3_BatchAtomic ==
    [][ret'.op = "WriteBatch" =>
          /\ (ret'.fault = "OK" =>
                  ret'.result = "true" /\ Db' = AllApplied(Db, calls))
          /\ (ret'.fault # "OK" => ret'.result = "throw" /\ Db' = Db)]_vars

C3_Witness ==
    /\ ret.op = "WriteBatch"
    /\ ret.fault = "IOError"
    /\ ret.result = "throw"
    /\ Len(calls) = 2
    /\ calls[1].op = "Write"
    /\ calls[2].op = "Erase"
    /\ SerializeKey(calls[1].key) \notin DOMAIN Db
    /\ SerializeKey(calls[2].key) \in DOMAIN Db

\* C4: Read and Exists of a key absent from the engine return false and do
\* not throw; when the engine answers with a failure status they throw.
C4_NotFoundVsError ==
    ret.op \in {"Read", "Exists"} =>
        /\ (ret.fault = "OK" /\ SerializeKey(ret.key) \notin DOMAIN Db
                => ret.result = "false")
        /\ (ret.fault # "OK" => ret.result = "throw")

C4_Witness ==
    /\ ret.op = "Exists"
    /\ ret.fault = "IOError"
    /\ SerializeKey(ret.key) \notin DOMAIN Db
    /\ ret.result = "throw"

\* C5: a handle opened on the on-disk database holds the obfuscation key that
\* was first persisted for the data now on disk; an open generates a key only
\* on a database that is new, wiped or in memory.
C5_KeyStable ==
    /\ (open /\ ~fMemory => GetObfuscateKey = diskKey)
    /\ (ret.op = "Open" => ret.note # "generated-existing")

C5_Witness ==
    /\ open
    /\ ~fMemory
    /\ ret.op = "Open"
    /\ ret.note = "loaded"
    /\ DOMAIN diskShadow # {}
    /\ GetObfuscateKey # ZeroKey
    /\ GetObfuscateKey = diskKey

C7_IterOnlyCallerRecords ==
    /\ (ret.op = "NewIterator" =>
            Ascending(ret.items) /\ Range(ret.items) = CallerRecords)
    /\ (ret.op = "Read" /\ ret.fault = "OK" /\ ret.key \notin DOMAIN Shadow
            => ret.result = "false")
    /\ (ret.op = "Exists" /\ ret.fault = "OK" /\ ret.key \in DOMAIN Shadow
            => ret.result = "true")

\* C7 amended: the iterator yields the live caller records and the record
\* under the sentinel key that holds the obfuscation key, in ascending
\* order of the serialized key bytes, and nothing else; Read of a key not
\* live returns false and Exists of a live key returns true.
C7_IterWithSentinel ==
    /\ (ret.op = "NewIterator" =>
            /\ Ascending(ret.items)
            /\ Range(ret.items) = CallerRecords \cup {SentinelRecord})
    /\ (ret.op = "Read" /\ ret.fault = "OK" /\ ret.key \notin DOMAIN Shadow
            => ret.result = "false")
    /\ (ret.op = "Exists" /\ ret.fault = "OK" /\ ret.key \in DOMAIN Shadow
            => ret.result = "true")

C7_Witness ==
    /\ ret.op = "NewIterator"
    /\ DOMAIN Shadow = {<<98>>}
    /\ Shadow[<<98>>] = [type |-> "u8", value |-> 7]
    /\ Len(ret.items) = 2
    /\ ret.items[1] = [key |-> <<1, 98>>, value |-> <<7>>]
    /\ ret.items[2].key = SentinelKey

\* C8: a Read of a key whose stored bytes do not deserialize as the requested
\* type returns false without throwing and leaves the database as it was,
\* the stored bytes still present.
C8_Undecodable ==
    [][(/\ ret'.op = "Read"
        /\ ret'.fault = "OK"
        /\ SerializeKey(ret'.key) \in DOMAIN Db
        /\ ~Unserialize(ret'.type, Db[SerializeKey(ret'.key)]).ok)
          => (/\ ret'.result = "false"
              /\ disk' = disk
              /\ mem' = mem
              /\ SerializeKey(ret'.key) \in DOMAIN Db')]_vars

C8_Witness ==
    /\ ret.op = "Read"
    /\ ret.fault = "OK"
    /\ ret.type = "u16"
    /\ SerializeKey(ret.key) \in DOMAIN Db
    /\ Db[SerializeKey(ret.key)] = <<42>>
    /\ ret.result = "false"

\* C9: every call on a batch is recorded, in call order, none dropped or
\* merged; after a successful WriteBatch each key is as the last call that
\* names it left it: readable with the last value put, or absent after a
\* delete, and untouched when no call names it.
C9_Recorded ==
    /\ Len(batch.batch) = Len(calls)
    /\ \A i \in DOMAIN calls :
          /\ batch.batch[i].op = (IF calls[i].op = "Write" THEN "Put" ELSE "Delete")
          /\ batch.batch[i].key = SerializeKey(calls[i].key)

C9_LastWins ==
    ret'.op = "WriteBatch" /\ ret'.result = "true" =>
        \A key \in Keys :
            LET I == {i \in DOMAIN calls : calls[i].key = key}
                last == calls[CHOOSE i \in I : \A j \in I : j <= i]
            IN IF I = {}
               THEN /\ Exists(Db', key, "OK") = Exists(Db, key, "OK")
                    /\ \A t \in Types : Read(Db', key, t, "OK") = Read(Db, key, t, "OK")
               ELSE IF last.op = "Write"
               THEN Read(Db', key, last.type, "OK")
                        = [result |-> "true", value |-> last.value]
               ELSE Exists(Db', key, "OK") = "false"

\* C9: the record of the calls holds in every state and the last call for
\* a key wins in every successful WriteBatch step.
C9_BatchOrder == []C9_Recorded /\ [][C9_LastWins]_vars

C9_Witness ==
    /\ ret.op = "WriteBatch"
    /\ ret.result = "true"
    /\ Len(calls) = 2
    /\ calls[1].op = "Write"
    /\ calls[2].op = "Erase"
    /\ calls[1].key = calls[2].key
    /\ SerializeKey(calls[1].key) \notin DOMAIN Db

\* C10: a step that creates a batch or adds a Write or an Erase to it leaves
\* the database as it was: Read, Exists and iteration answer as before; the
\* database changes only when a batch is submitted with WriteBatch.
C10_BatchFrame ==
    [][ret'.op # "WriteBatch" =>
          /\ disk' = disk
          /\ mem' = mem
          /\ NewIterator(Db') = NewIterator(Db)
          /\ \A key \in Keys :
                /\ Exists(Db', key, "OK") = Exists(Db, key, "OK")
                /\ \A t \in Types : Read(Db', key, t, "OK") = Read(Db, key, t, "OK")]_vars

C10_Witness ==
    /\ ret.op = "BatchErase"
    /\ Len(calls) = 2
    /\ calls[1].op = "Write"
    /\ SerializeKey(calls[1].key) \notin DOMAIN Db
    /\ SerializeKey(calls[2].key) \in DOMAIN Db

====
